---- MODULE Spec2Model ----
(***************************************************************************)
(* Host Pro Max backend (src/app.py): the process supervisor               *)
(* (upload / start / stop / delete / my_apps over the in-memory            *)
(* running_processes registry), the credential and recipient scanner and   *)
(* the broadcast fan-out engine.                                           *)
(*                                                                         *)
(* Request handlers are modelled as sequences of steps of a worker thread  *)
(* (Flask serves requests on threads): every dictionary access, signal and *)
(* file-system call of a handler is one step, in program order.  Child     *)
(* processes live in the operating system and exit on their own schedule.  *)
(***************************************************************************)
EXTENDS Integers, Sequences, FiniteSets, TLC

(***************************************************************************)
(* Bounds of the model.                                                    *)
(***************************************************************************)
\* Number of child processes the supervisor may spawn in one behaviour.
MaxSpawns == 2
\* Largest recipient identifier found in the stored deployments.
MaxRecipients == 65
\* The most files one directory of a resolved tree lists.
MaxFiles == 2
\* The longest runs of digits and of letters in a scanned text.
MaxDigits == 11
MaxLetters == 36
\* The most lines of users.txt.
MaxLines == 2

(***************************************************************************)
(* Program constants.                                                      *)
(***************************************************************************)
\* broadcast(): batch_size
batch_size == 30

Projects == {"alpha", "beta"}
Threads == {1, 2}

NoDir == <<>>
NoToken == "None"
NoEntry == [script |-> "None", dir |-> <<"None">>]

Min(S) == CHOOSE x \in S : \A y \in S : x <= y
Range(s) == {s[i] : i \in 1..Len(s)}

(***************************************************************************)
(* The deployment store.  A deployment's tree is the sequence of its       *)
(* directories in os.walk order (the root first); a directory holds its    *)
(* path below the root and its files in listing order.  A file carries its *)
(* name, split at the last dot, and what the scanner's two patterns find   *)
(* in its text: the first token match and the set of identifier matches.   *)
(***************************************************************************)
File(base, ext, tok, ids) == [base |-> base, ext |-> ext, tok |-> tok, ids |-> ids]
Dir(path, files) == [path |-> path, files |-> files]

\* The six names in another order.
priority_files_app_first == <<"main", "app", "bot", "index", "start", "run">>

\* find_bot_entry: priority_files, in the order of the source
priority_files == <<"main", "bot", "app", "index", "start", "run">>

\* The directory names of the model that contain "__pycache__" or ".git".
SkippedNames == {"__pycache__", ".git", ".github"}

IsPy(f) == f.ext = "py"
IsPriority(f, i) == f.base = priority_files[i] /\ f.ext = "py"

PriorityHits(files) ==
  {i \in 1..Len(priority_files) : \E j \in 1..Len(files) : IsPriority(files[j], i)}

PyHits(files) == {j \in 1..Len(files) : IsPy(files[j])}

SkippedDir(d) == \E i \in 1..Len(d.path) : d.path[i] \in SkippedNames

\* What one visited directory of the walk returns: 0 (nothing, go on), or a hit.
WalkHit(d) ==
  IF SkippedDir(d) THEN NoEntry
  ELSE IF PriorityHits(d.files) # {}
       THEN [script |-> priority_files[Min(PriorityHits(d.files))], dir |-> d.path]
  ELSE IF PyHits(d.files) # {}
       THEN [script |-> d.files[Min(PyHits(d.files))].base, dir |-> d.path]
  ELSE NoEntry

\* A resolver that looks for each priority name in the whole tree before it
\* looks for the next one.
find_bot_entry_by_name(tree) ==
  LET named == {<<i, d>> \in (1..Len(priority_files)) \X (1..Len(tree)) :
                  ~SkippedDir(tree[d]) /\ i \in PriorityHits(tree[d].files)}
      any == {d \in 1..Len(tree) : WalkHit(tree[d]) # NoEntry}
  IN IF tree = NoDir THEN NoEntry
     ELSE IF named # {}
          THEN LET i == Min({h[1] : h \in named})
               IN [script |-> priority_files[i], dir |-> tree[Min({h[2] : h \in {g \in named : g[1] = i}})].path]
     ELSE IF any = {} THEN NoEntry ELSE WalkHit(tree[Min(any)])

find_bot_entry(tree) ==
  IF tree = NoDir THEN NoEntry
  ELSE IF PriorityHits(tree[1].files) # {}
       THEN [script |-> priority_files[Min(PriorityHits(tree[1].files))], dir |-> <<>>]
  ELSE LET hits == {i \in 1..Len(tree) : WalkHit(tree[i]) # NoEntry}
       IN IF hits = {} THEN NoEntry ELSE WalkHit(tree[Min(hits)])

RECURSIVE AllFiles(_)
\* The files of a tree in the order os.walk and its inner loop visit them.
AllFiles(tree) ==
  IF tree = <<>> THEN <<>> ELSE Head(tree).files \o AllFiles(Tail(tree))

\* extract_bot_token: files_to_check, or any file with the .py extension
TokenCandidate(f) ==
  \/ <<f.base, f.ext>> \in {<<"config", "env">>, <<"", "env">>, <<"config", "txt">>,
                            <<"settings", "py">>, <<"bot", "py">>, <<"main", "py">>}
  \/ IsPy(f)

extract_bot_token(tree) ==
  LET fs == AllFiles(tree)
      hits == {j \in 1..Len(fs) : TokenCandidate(fs[j]) /\ fs[j].tok # NoToken}
  IN IF hits = {} THEN NoToken ELSE fs[Min(hits)].tok

(***************************************************************************)
(* The scanner's two patterns, on a text given as the sequence of its      *)
(* characters.  No match is the empty sequence.                            *)
(***************************************************************************)
\* \d
Digits == {"0", "1", "2", "3", "4", "5", "6", "7", "8", "9"}
\* [A-Za-z0-9_-]
TokenChars ==
  Digits \cup {"_", "-"}
    \cup {"A", "B", "C", "D", "E", "F", "G", "H", "I", "J", "K", "L", "M",
          "N", "O", "P", "Q", "R", "S", "T", "U", "V", "W", "X", "Y", "Z"}
    \cup {"a", "b", "c", "d", "e", "f", "g", "h", "i", "j", "k", "l", "m",
          "n", "o", "p", "q", "r", "s", "t", "u", "v", "w", "x", "y", "z"}

AllIn(text, from, to, class) ==
  /\ from >= 1
  /\ to <= Len(text)
  /\ \A k \in from..to : text[k] \in class

\* A pattern that takes every token character that follows: {35,}
TokenTailGreedy(text, j) ==
  IF AllIn(text, j, j + 34, TokenChars)
  THEN CHOOSE e \in (j + 34)..Len(text) :
         /\ AllIn(text, j, e, TokenChars)
         /\ (e = Len(text) \/ text[e + 1] \notin TokenChars)
  ELSE 0

\* [A-Za-z0-9_-]{35} from position j: the position of its last character, or 0
TokenTail(text, j) ==
  IF AllIn(text, j, j + 34, TokenChars) THEN j + 34 ELSE 0

\* \d{8,10}: from position i: the digit counts after which the rest matches
TokenAt(text, i) ==
  {d \in 8..10 : /\ AllIn(text, i, i + d - 1, Digits)
                 /\ i + d <= Len(text)
                 /\ text[i + d] = ":"
                 /\ TokenTail(text, i + d + 1) # 0}

\* token_pattern.search(content), then match.group(1): the leftmost match, with
\* the longest digit run that lets the rest of the pattern match
token_pattern_search(content) ==
  LET starts == {i \in 1..Len(content) : TokenAt(content, i) # {}}
  IN IF starts = {} THEN <<>>
     ELSE LET i == Min(starts)
              d == CHOOSE x \in TokenAt(content, i) : \A y \in TokenAt(content, i) : y <= x
          IN SubSeq(content, i, TokenTail(content, i + d + 1))

\* The last position of the longest run of digits that starts at position i
\* (i - 1 if there is none).
DigitsEnd(text, i) ==
  CHOOSE e \in (i - 1)..Len(text) :
    /\ \A k \in i..e : text[k] \in Digits
    /\ (e = Len(text) \/ text[e + 1] \notin Digits)

\* A pattern without the sign: \d{5,}
IdAtUnsigned(text, i) ==
  IF DigitsEnd(text, i) - i + 1 >= 5 THEN DigitsEnd(text, i) ELSE 0

\* -?\d{5,} from position i: the position of its last character, or 0
IdAt(text, i) ==
  LET first == IF text[i] = "-" THEN i + 1 ELSE i
  IN IF DigitsEnd(text, first) - first + 1 >= 5 THEN DigitsEnd(text, first) ELSE 0

RECURSIVE FindAllFrom(_, _)
\* The matches of a scan that has reached position i: a match is taken where it
\* begins and the scan goes on behind it.
FindAllFrom(text, i) ==
  IF i > Len(text) THEN {}
  ELSE IF IdAt(text, i) # 0
       THEN {SubSeq(text, i, IdAt(text, i))} \cup FindAllFrom(text, IdAt(text, i) + 1)
  ELSE FindAllFrom(text, i + 1)

\* id_regex.findall(line)
id_regex_findall(line) == FindAllFrom(line, 1)

\* for line in f: found_ids.add(m) for each match of the line
IdsOfLines(lines) == UNION {id_regex_findall(lines[k]) : k \in 1..Len(lines)}

\* extract_user_ids: id_files
IdFile(f) == f.ext = "txt" /\ f.base \in {"users", "chats", "ids", "broadcast"}

extract_user_ids(tree) ==
  LET fs == AllFiles(tree)
  IN UNION {fs[j].ids : j \in {i \in 1..Len(fs) : IdFile(fs[i])}}

(***************************************************************************)
(* What an operator can upload.  A .py upload becomes a deployment holding *)
(* that one file; a .zip upload becomes the tree of the archive.           *)
(***************************************************************************)
ZipMain == <<Dir(<<>>, <<File("main", "py", "tokA", {}), File("users", "txt", NoToken, {1, 2})>>)>>
ZipContents == {ZipMain}

PyTree(name) == <<Dir(<<>>, <<File(name, "py", NoToken, {})>>)>>
\* A failed extraction leaves the saved archive alone in the directory.
BadZipTree(name) == <<Dir(<<>>, <<File(name, "zip", NoToken, {})>>)>>

\* The log sink (logs.txt beside the deployment's files) is not part of the
\* tree: neither the resolver nor the scanner reads it.

(***************************************************************************)
(* State.                                                                  *)
(***************************************************************************)
VARIABLES
  storage,            \* STORAGE_PATH: project name -> tree, or NoDir
  running_processes,  \* the registry: project name (pid_key) -> handle (a pid)
  procs,              \* the operating system: pid -> child process
  pc,                 \* worker thread -> its place in the handler it runs
  loc,                \* worker thread -> the locals of that handler
  last,               \* the response just sent (NoResp after any other step)
  bpc,                \* broadcast(): its place in the handler
  job,                \* broadcast(): the request and what discovery found
  bi,                 \* broadcast(): the loop variable i
  inflight,           \* chat ids whose request has been issued and not yet answered
  sent,               \* every request issued to the messaging API, in order
  tally,              \* success_count, fail_count, and what the API answered
  history,            \* the rows of broadcast_history
  bresp,              \* the response of broadcast(), once sent
  scan                \* one call of the resolver or of a scanner: input and result

bvars == <<bpc, job, bi, inflight, sent, tally, history, bresp>>

Pids == 1..MaxSpawns
Unborn == [state |-> "unborn", key |-> "None", cwd |-> <<"None">>]
\* The child is gone from the operating system, and its working directory with it.
Exit(ps, p) == [ps EXCEPT ![p].state = "dead", ![p].cwd = Unborn.cwd]
Spawned == {p \in Pids : procs[p].state # "unborn"}
\* The projects for which a start has launched a child.
started == {procs[p].key : p \in Spawned}
\* A child that has not exited: running, or sent SIGKILL and not yet gone.
InOS(p) == procs[p].state \in {"alive", "killed"}

IdleLoc == [op |-> "none", key |-> "None", todo |-> <<>>, apps |-> <<>>,
            reg0 |-> <<>>, spawned0 |-> 0, probe |-> "none",
            termTo |-> {}, waited |-> "none", killTo |-> {},
            left |-> {}]
NoResp == [t |-> 0, result |-> "none", req |-> IdleLoc]

Finish(t, result, l) ==
  /\ pc' = [pc EXCEPT ![t] = "idle"]
  /\ loc' = [loc EXCEPT ![t] = IdleLoc]
  /\ last' = [t |-> t, result |-> result, req |-> l]
  /\ UNCHANGED <<bvars, scan>>

Goto(t, label, l) ==
  /\ pc' = [pc EXCEPT ![t] = label]
  /\ loc' = [loc EXCEPT ![t] = l]
  /\ last' = NoResp
  /\ UNCHANGED <<bvars, scan>>

(***************************************************************************)
(* The registry and the process handles.                                   *)
(***************************************************************************)
\* pid_key in running_processes
Registered(k) == k \in DOMAIN running_processes

\* A liveness probe that never notices that a child has exited.
PollAlwaysNone(p) == TRUE

\* A liveness probe that takes every child for exited.
PollNeverNone(p) == FALSE

\* Popen.poll() is None
PollIsNone(p) == InOS(p)

\* A store that keeps the handle the key already has.
RegStoreOnce(reg, k, p) == [x \in DOMAIN reg \cup {k} |-> IF x \in DOMAIN reg THEN reg[x] ELSE p]

\* running_processes[pid_key] = proc
RegStore(reg, k, p) == [x \in DOMAIN reg \cup {k} |-> IF x = k THEN p ELSE reg[x]]

\* A removal that leaves the entry in place.
RegDelKeeps(reg, k) == reg

\* del running_processes[pid_key]
RegDel(reg, k) == [x \in DOMAIN reg \ {k} |-> reg[x]]

\* A kill that sends nothing.
KillNothing(ps, p) == ps

\* Popen.kill(): SIGKILL to a child that has not exited; the call does not wait.
Kill(ps, p) == IF ps[p].state = "alive" THEN [ps EXCEPT ![p].state = "killed"] ELSE ps

\* my_apps: is_running of one project
is_running(k) == Registered(k) /\ PollIsNone(running_processes[k])

(***************************************************************************)
(* upload(): one step.  The old directory is removed and recreated, the    *)
(* file is saved and, for an archive, extracted.  The registry is not      *)
(* consulted.  Requests are those that pass the password check.            *)
(***************************************************************************)
UploadTrees(name) ==
  {PyTree(name), BadZipTree(name)} \cup ZipContents

UploadResult(name, tree) ==
  IF tree = BadZipTree(name) THEN "Extraction Failed" ELSE "Deployed Successfully!"

\* The working directory of a child whose directory has been removed.
Deleted == <<"(deleted)">>

\* shutil.rmtree(project_dir): the children of the project that are still in
\* the operating system keep running, in a directory that is no more.
Rmtree(ps, name) ==
  [p \in Pids |-> IF ps[p].key = name /\ ps[p].state \in {"alive", "killed"}
                  THEN [ps[p] EXCEPT !.cwd = Deleted]
                  ELSE ps[p]]

Upload(t) ==
  /\ pc[t] = "idle"
  /\ \E name \in Projects : \E tree \in UploadTrees(name) :
       /\ storage' = [storage EXCEPT ![name] = tree]
       /\ procs' = IF storage[name] # NoDir THEN Rmtree(procs, name) ELSE procs
       /\ Finish(t, UploadResult(name, tree), [IdleLoc EXCEPT !.op = "upload", !.key = name])
  /\ UNCHANGED running_processes

(***************************************************************************)
(* action(): the request arrives, lines 332-343.                           *)
(***************************************************************************)
ActionTypes == {"start", "stop", "delete", "restart"}

\* Threads that may still launch a child (the model spawns at most MaxSpawns).
Starting == {t \in Threads : pc[t] \in {"start_check", "start_poll", "start_spawn"}}

Request(t) ==
  /\ pc[t] = "idle"
  /\ \E action_type \in ActionTypes, app_name \in Projects \cup {""} :
       /\ action_type = "start" => Cardinality(Spawned) + Cardinality(Starting) < MaxSpawns
       /\ LET l == [IdleLoc EXCEPT !.op = action_type, !.key = app_name,
                                !.reg0 = running_processes,
                                !.spawned0 = Cardinality(Spawned)]
          IN IF app_name = "" THEN Finish(t, "App name missing", l)
             ELSE IF storage[app_name] = NoDir THEN Finish(t, "Project not found", l)
             ELSE IF action_type = "start" THEN Goto(t, "start_check", l)
             ELSE IF action_type = "stop" THEN Goto(t, "stop_check", l)
             ELSE IF action_type = "delete" THEN Goto(t, "delete_check", l)
             ELSE Finish(t, "Invalid Action", l)
  /\ UNCHANGED <<storage, running_processes, procs>>

(***************************************************************************)
(* start, lines 346-373.                                                   *)
(***************************************************************************)
\* pid_key in running_processes  (the left operand of the test at line 347)
StartCheck(t) ==
  /\ pc[t] = "start_check"
  /\ IF Registered(loc[t].key)
     THEN Goto(t, "start_poll", loc[t])
     ELSE Goto(t, "start_spawn", [loc[t] EXCEPT !.probe = "absent"])
  /\ UNCHANGED <<storage, running_processes, procs>>

\* running_processes[pid_key].poll() is None  (the right operand), line 348
StartPoll(t) ==
  /\ pc[t] = "start_poll"
  /\ IF ~Registered(loc[t].key)
     THEN Finish(t, "Internal Server Error", loc[t])
     ELSE IF PollIsNone(running_processes[loc[t].key])
          THEN Finish(t, "Already Running", [loc[t] EXCEPT !.probe = "live"])
          ELSE Goto(t, "start_spawn", [loc[t] EXCEPT !.probe = "exited"])
  /\ UNCHANGED <<storage, running_processes, procs>>

\* The handle Popen returns: the next unused pid.
NewPid == Min(Pids \ Spawned)

\* Lines 350-373: resolve the entry point, open the log, launch, store.  The
\* launch either fails (the except branch) or returns a handle, which the
\* next statement stores: launch and store are one step.
StartSpawn(t) ==
  /\ pc[t] = "start_spawn"
  /\ LET k == loc[t].key
         entry == find_bot_entry(storage[k])
     IN IF entry = NoEntry
        THEN /\ Finish(t, "No Python script found!", loc[t])
             /\ UNCHANGED <<storage, running_processes, procs>>
        ELSE \/ /\ procs' = [procs EXCEPT ![NewPid] =
                                  [state |-> "alive", key |-> k, cwd |-> entry.dir]]
                /\ running_processes' = RegStore(running_processes, k, NewPid)
                /\ Finish(t, "Bot Started!", loc[t])
                /\ UNCHANGED storage
             \/ /\ Finish(t, "Start failed", loc[t])
                /\ UNCHANGED <<storage, running_processes, procs>>

(***************************************************************************)
(* stop, lines 376-386.                                                    *)
(***************************************************************************)
StopCheck(t) ==
  /\ pc[t] = "stop_check"
  /\ IF Registered(loc[t].key)
     THEN Goto(t, "stop_terminate",
               [loc[t] EXCEPT !.probe =
                  IF PollIsNone(running_processes[loc[t].key]) THEN "live" ELSE "exited"])
     ELSE Finish(t, "Not running", [loc[t] EXCEPT !.probe = "absent"])
  /\ UNCHANGED <<storage, running_processes, procs>>

\* running_processes[pid_key].terminate(): SIGTERM, unless the child has exited
StopTerminate(t) ==
  /\ pc[t] = "stop_terminate"
  /\ IF ~Registered(loc[t].key)
     THEN Finish(t, "Internal Server Error", loc[t])
     ELSE LET p == running_processes[loc[t].key]
          IN Goto(t, "stop_wait",
                  [loc[t] EXCEPT !.termTo = IF PollIsNone(p) THEN {p} ELSE {}])
  /\ UNCHANGED <<storage, running_processes, procs>>

\* running_processes[pid_key].wait(timeout=3): the child exits in time, or not;
\* a KeyError, like the timeout, is caught by the bare except
StopWait(t) ==
  /\ pc[t] = "stop_wait"
  /\ IF ~Registered(loc[t].key)
     THEN /\ Goto(t, "stop_kill", [loc[t] EXCEPT !.waited = "KeyError"])
          /\ UNCHANGED procs
     ELSE LET p == running_processes[loc[t].key]
          IN IF ~PollIsNone(p)
             THEN /\ Goto(t, "stop_del", [loc[t] EXCEPT !.waited = "exited"])
                  /\ UNCHANGED procs
             ELSE \/ /\ procs' = Exit(procs, p)
                     /\ Goto(t, "stop_del", [loc[t] EXCEPT !.waited = "exited"])
                  \/ /\ Goto(t, "stop_kill", [loc[t] EXCEPT !.waited = "timeout"])
                     /\ UNCHANGED procs
  /\ UNCHANGED <<storage, running_processes>>

\* except: running_processes[pid_key].kill()
StopKill(t) ==
  /\ pc[t] = "stop_kill"
  /\ IF ~Registered(loc[t].key)
     THEN /\ Finish(t, "Internal Server Error", loc[t])
          /\ UNCHANGED procs
     ELSE LET p == running_processes[loc[t].key]
          IN /\ procs' = Kill(procs, p)
             /\ Goto(t, "stop_del", [loc[t] EXCEPT !.killTo = IF PollIsNone(p) THEN {p} ELSE {}])
  /\ UNCHANGED <<storage, running_processes>>

\* del running_processes[pid_key]; return "Stopped"
StopDel(t) ==
  /\ pc[t] = "stop_del"
  /\ IF ~Registered(loc[t].key)
     THEN /\ Finish(t, "Internal Server Error", loc[t])
          /\ UNCHANGED running_processes
     ELSE /\ running_processes' = RegDel(running_processes, loc[t].key)
          /\ Finish(t, "Stopped", loc[t])
  /\ UNCHANGED <<storage, procs>>

(***************************************************************************)
(* delete, lines 389-404.                                                  *)
(***************************************************************************)
DeleteCheck(t) ==
  /\ pc[t] = "delete_check"
  /\ IF Registered(loc[t].key)
     THEN Goto(t, "delete_kill",
               [loc[t] EXCEPT !.probe =
                  IF PollIsNone(running_processes[loc[t].key]) THEN "live" ELSE "exited"])
     ELSE Goto(t, "delete_rm", [loc[t] EXCEPT !.probe = "absent"])
  /\ UNCHANGED <<storage, running_processes, procs>>

\* running_processes[pid_key].kill()
DeleteKill(t) ==
  /\ pc[t] = "delete_kill"
  /\ IF ~Registered(loc[t].key)
     THEN /\ Finish(t, "Internal Server Error", loc[t])
          /\ UNCHANGED procs
     ELSE LET p == running_processes[loc[t].key]
          IN /\ procs' = Kill(procs, p)
             /\ Goto(t, "delete_del", [loc[t] EXCEPT !.killTo = IF PollIsNone(p) THEN {p} ELSE {}])
  /\ UNCHANGED <<storage, running_processes>>

\* del running_processes[pid_key]
DeleteDel(t) ==
  /\ pc[t] = "delete_del"
  /\ IF ~Registered(loc[t].key)
     THEN /\ Finish(t, "Internal Server Error", loc[t])
          /\ UNCHANGED running_processes
     ELSE /\ running_processes' = RegDel(running_processes, loc[t].key)
          /\ Goto(t, "delete_rm", loc[t])
  /\ UNCHANGED <<storage, procs>>

\* The children launched for project k that have not exited.
ChildrenInOS(k) == {p \in Pids : procs[p].key = k /\ InOS(p)}

\* shutil.rmtree(app_dir), the database row, return "Deleted"
DeleteRm(t) ==
  /\ pc[t] = "delete_rm"
  /\ storage' = [storage EXCEPT ![loc[t].key] = NoDir]
  /\ procs' = Rmtree(procs, loc[t].key)
  /\ Finish(t, "Deleted", [loc[t] EXCEPT !.left = ChildrenInOS(loc[t].key)])
  /\ UNCHANGED running_processes

(***************************************************************************)
(* my_apps(), lines 287-327: the status probe of every stored project.     *)
(***************************************************************************)
Perms(S) == {s \in [1..Cardinality(S) -> S] : \A i, j \in 1..Cardinality(S) : s[i] = s[j] => i = j}

\* os.listdir(STORAGE_PATH): the stored projects, in some order
Listings == Perms({name \in Projects : storage[name] # NoDir})

AppRow(name, running) ==
  [name |-> name, running |-> running, has_token |-> extract_bot_token(storage[name]) # NoToken]

StatusRequest(t) ==
  /\ pc[t] = "idle"
  /\ \E listing \in Listings :
       Goto(t, "status_check", [IdleLoc EXCEPT !.op = "status", !.todo = listing,
                                               !.reg0 = running_processes])
  /\ UNCHANGED <<storage, running_processes, procs>>

\* The loop head, os.path.isdir and `pid_key in running_processes`
StatusCheck(t) ==
  /\ pc[t] = "status_check"
  /\ LET l == loc[t]
     IN IF l.todo = <<>> THEN Finish(t, "apps", l)
        ELSE IF storage[Head(l.todo)] = NoDir
             THEN Goto(t, "status_check", [l EXCEPT !.todo = Tail(@)])
        ELSE IF Registered(Head(l.todo)) THEN Goto(t, "status_poll", l)
        ELSE Goto(t, "status_check",
                  [l EXCEPT !.todo = Tail(@), !.apps = Append(@, AppRow(Head(l.todo), FALSE))])
  /\ UNCHANGED <<storage, running_processes, procs>>

\* running_processes[pid_key].poll() is None
StatusPoll(t) ==
  /\ pc[t] = "status_poll"
  /\ LET l == loc[t]
     IN IF ~Registered(Head(l.todo)) THEN Finish(t, "Internal Server Error", l)
        ELSE IF PollIsNone(running_processes[Head(l.todo)])
             THEN Goto(t, "status_check",
                       [l EXCEPT !.todo = Tail(@), !.apps = Append(@, AppRow(Head(l.todo), TRUE))])
        ELSE Goto(t, "status_del", l)
  /\ UNCHANGED <<storage, running_processes, procs>>

\* del running_processes[pid_key]  (clean dead process)
StatusDel(t) ==
  /\ pc[t] = "status_del"
  /\ LET l == loc[t]
     IN IF ~Registered(Head(l.todo))
        THEN /\ Finish(t, "Internal Server Error", l)
             /\ UNCHANGED running_processes
        ELSE /\ running_processes' = RegDel(running_processes, Head(l.todo))
             /\ Goto(t, "status_check",
                     [l EXCEPT !.todo = Tail(@), !.apps = Append(@, AppRow(Head(l.todo), FALSE))])
  /\ UNCHANGED <<storage, procs>>

(***************************************************************************)
(* The operating system: a child exits, on its own or after SIGKILL.       *)
(***************************************************************************)
ProcExit(p) ==
  /\ InOS(p)
  /\ procs' = Exit(procs, p)
  /\ last' = NoResp
  /\ UNCHANGED <<storage, running_processes, pc, loc>>
  /\ UNCHANGED <<bvars, scan>>

(***************************************************************************)
(* broadcast(), lines 412-491.  One call per behaviour.  The payload shape *)
(* (text or photo, with or without button) is not modelled.                *)
(***************************************************************************)
RECURSIVE DiscoverLastToken(_, _, _, _)
\* A scan loop that lets every later token replace the one already found.
DiscoverLastToken(listing, target_apps, api_token, all_user_ids) ==
  IF listing = <<>> THEN [api_token |-> api_token, all_user_ids |-> all_user_ids]
  ELSE LET project_name == Head(listing)
           found_token == extract_bot_token(storage[project_name])
       IN IF target_apps # {} /\ project_name \notin target_apps
          THEN DiscoverLastToken(Tail(listing), target_apps, api_token, all_user_ids)
          ELSE DiscoverLastToken(Tail(listing), target_apps,
                                 IF found_token # NoToken THEN found_token ELSE api_token,
                                 all_user_ids \cup extract_user_ids(storage[project_name]))

RECURSIVE Discover(_, _, _, _)
\* The scan loop, lines 429-445, over what is left of os.listdir's result.
Discover(listing, target_apps, api_token, all_user_ids) ==
  IF listing = <<>> THEN [api_token |-> api_token, all_user_ids |-> all_user_ids]
  ELSE LET project_name == Head(listing)
           found_token == extract_bot_token(storage[project_name])
       IN IF target_apps # {} /\ project_name \notin target_apps
          THEN Discover(Tail(listing), target_apps, api_token, all_user_ids)
          ELSE Discover(Tail(listing), target_apps,
                        IF api_token = NoToken THEN found_token ELSE api_token,
                        all_user_ids \cup extract_user_ids(storage[project_name]))

\* A precondition that forgets the recipients.
FailFastTokenOnly(api_token, all_user_ids) ==
  IF api_token = NoToken THEN "No bot token found" ELSE "ok"

\* Lines 447-451: the two checks before dispatch.
FailFast(api_token, all_user_ids) ==
  IF api_token = NoToken THEN "No bot token found"
  ELSE IF all_user_ids = {} THEN "No users found"
  ELSE "ok"

RECURSIVE InOrder(_)
\* `for uid in all_user_ids`: the set's iteration order, here ascending.
InOrder(S) == IF S = {} THEN <<>> ELSE <<Min(S)>> \o InOrder(S \ {Min(S)})

\* gather(*tasks[i:]): every request that is left, at once.
BatchAll(tasks, i) == SubSeq(tasks, i + 1, Len(tasks))

\* A slice that stops one task short.
BatchShort(tasks, i) ==
  SubSeq(tasks, i + 1, (IF i + batch_size < Len(tasks) THEN i + batch_size ELSE Len(tasks)) - 1)

\* tasks[i:i+batch_size]
Batch(tasks, i) ==
  SubSeq(tasks, i + 1, IF i + batch_size < Len(tasks) THEN i + batch_size ELSE Len(tasks))

\* What the messaging API does with one request.
Outcomes == {"200", "rejected", "rejected_unparsable", "timeout", "network_error"}

\* A sender that lets a timeout escape.
send_tg_message_raises(outcome) ==
  IF outcome = "200" THEN "True" ELSE IF outcome = "timeout" THEN "raise" ELSE "False"

\* send_tg_message: (True, chat_id) on status 200; the error body is read and
\* logged otherwise; every exception is caught and logged.
send_tg_message(outcome) == IF outcome = "200" THEN "True" ELSE "False"

ErrorResp(msg) == [status |-> "error", error |-> msg, total |-> 0, success |-> 0, failed |-> 0]
NoTally == [success_count |-> 0, fail_count |-> 0, bad_outcomes |-> 0, batches |-> <<>>, pauses |-> 0]
NoJob == [text |-> "", target_apps |-> {}, listing |-> <<>>, api_token |-> NoToken, tasks |-> <<>>]

BroadcastRequest ==
  /\ bpc = "idle"
  /\ \E text \in {"", "hello"}, target_apps \in SUBSET Projects, listing \in Listings :
       LET d == Discover(listing, target_apps, NoToken, {})
           check == FailFast(d.api_token, d.all_user_ids)
           j == [text |-> text, target_apps |-> target_apps, listing |-> listing,
                 api_token |-> NoToken, tasks |-> <<>>]
       IN IF text = ""
          THEN /\ bresp' = ErrorResp("Message text required")
               /\ job' = j
               /\ bpc' = "done"
          ELSE IF check # "ok"
          THEN /\ bresp' = ErrorResp(check)
               /\ job' = j
               /\ bpc' = "done"
          ELSE /\ job' = [j EXCEPT !.api_token = d.api_token, !.tasks = InOrder(d.all_user_ids)]
               /\ bpc' = "loop"
               /\ UNCHANGED bresp
  /\ UNCHANGED <<bi, inflight, sent, tally, history>>
  /\ UNCHANGED <<storage, running_processes, procs, pc, loc, last, scan>>

\* for i in range(0, len(tasks), batch_size): the batch's requests go out
BatchIssue ==
  /\ bpc = "loop"
  /\ bi < Len(job.tasks)
  /\ LET batch == Batch(job.tasks, bi)
     IN /\ sent' = sent \o [n \in 1..Len(batch) |-> [chat_id |-> batch[n], token |-> job.api_token]]
        /\ inflight' = Range(batch)
        /\ tally' = [tally EXCEPT !.batches = Append(@, Len(batch))]
  /\ bpc' = "gather"
  /\ UNCHANGED <<job, bi, history, bresp>>
  /\ UNCHANGED <<storage, running_processes, procs, pc, loc, last, scan>>

\* results = await asyncio.gather(*batch) and the tally, lines 470-474: `ok`
\* requests of the batch are answered 200, the others meet outcome `other`.
BatchGather ==
  /\ bpc = "gather"
  /\ \E ok \in 0..Cardinality(inflight), other \in Outcomes \ {"200"} :
       LET n == Cardinality(inflight)
           raised == \/ ok > 0 /\ send_tg_message("200") = "raise"
                     \/ ok < n /\ send_tg_message(other) = "raise"
           trues == (IF send_tg_message("200") = "True" THEN ok ELSE 0)
                    + (IF send_tg_message(other) = "True" THEN n - ok ELSE 0)
       IN IF raised
          THEN /\ bresp' = ErrorResp("Internal Server Error")
               /\ bpc' = "done"
               /\ tally' = [tally EXCEPT !.bad_outcomes = @ + (n - ok)]
          ELSE /\ tally' = [tally EXCEPT !.success_count = @ + trues,
                                         !.fail_count = @ + (n - trues),
                                         !.bad_outcomes = @ + (n - ok)]
               /\ bpc' = "sleep"
               /\ UNCHANGED bresp
  /\ inflight' = {}
  /\ UNCHANGED <<job, bi, sent, history>>
  /\ UNCHANGED <<storage, running_processes, procs, pc, loc, last, scan>>

\* await asyncio.sleep(0.5), then the next i
BatchSleep ==
  /\ bpc = "sleep"
  /\ bi' = bi + batch_size
  /\ tally' = [tally EXCEPT !.pauses = @ + 1]
  /\ bpc' = "loop"
  /\ UNCHANGED <<job, inflight, sent, history, bresp>>
  /\ UNCHANGED <<storage, running_processes, procs, pc, loc, last, scan>>

\* Lines 478-491: the history row and the result.
BroadcastSave ==
  /\ bpc = "loop"
  /\ bi >= Len(job.tasks)
  /\ history' = Append(history, [project_name |-> "Global Broadcast",
                                 sent_count |-> tally.success_count,
                                 failed_count |-> tally.fail_count])
  /\ bresp' = [status |-> "completed", error |-> "", total |-> Len(job.tasks),
               success |-> tally.success_count, failed |-> tally.fail_count]
  /\ bpc' = "done"
  /\ UNCHANGED <<job, bi, inflight, sent, tally>>
  /\ UNCHANGED <<storage, running_processes, procs, pc, loc, last, scan>>

\* No call of the resolver or of a scanner has been made.
NoScan == [input |-> <<>>, output |-> <<>>, done |-> FALSE]

\* No broadcast has been requested.
InitBroadcast ==
  /\ bpc = "idle"
  /\ job = NoJob
  /\ bi = 0
  /\ inflight = {}
  /\ sent = <<>>
  /\ tally = NoTally
  /\ history = <<>>
  /\ bresp = [status |-> "none", error |-> "", total |-> 0, success |-> 0, failed |-> 0]

(***************************************************************************)
(* The deployments a broadcast scans.  alpha keeps its token in main.py    *)
(* and the recipients 1..n in users.txt; beta keeps its token in a nested  *)
(* config.env and the highest recipients in a nested chats.txt.  Both hold *)
(* files the scanner must pass over.                                       *)
(***************************************************************************)
AlphaStore(tok, n) ==
  <<Dir(<<>>, <<File("README", "md", "tokZ", {}),
               File("main", "py", tok, {}),
               File("users", "txt", NoToken, 1..n)>>)>>

BetaStore(tok, ids) ==
  <<Dir(<<>>, <<File("notes", "txt", NoToken, {MaxRecipients + 1})>>),
    Dir(<<"data">>, <<File("config", "env", tok, {}),
                     File("chats", "txt", NoToken, ids)>>)>>

TopIds == (MaxRecipients - 4)..MaxRecipients

\* Recipient counts on both sides of every batch boundary.
AlphaSizes == {0, 1, batch_size, batch_size + 1, 2 * batch_size, MaxRecipients}

AlphaStores == {NoDir} \cup {AlphaStore(tok, n) : tok \in {NoToken, "tokA"}, n \in AlphaSizes}
BetaStores == {NoDir, BetaStore("tokB", {}), BetaStore(NoToken, TopIds), BetaStore("tokB", TopIds)}

(***************************************************************************)
(* The supervisor: initial state and steps.                                *)
(***************************************************************************)
\* The registry is empty and no request is being served.
InitControl ==
  /\ running_processes = <<>>
  /\ procs = [p \in Pids |-> Unborn]
  /\ pc = [t \in Threads |-> "idle"]
  /\ loc = [t \in Threads |-> IdleLoc]
  /\ last = NoResp

\* A fresh installation: STORAGE_PATH has just been created.
InitSupervisor ==
  /\ storage = [name \in Projects |-> NoDir]
  /\ InitControl

Control(t) ==
  \/ Request(t)
  \/ StartCheck(t) \/ StartPoll(t) \/ StartSpawn(t)
  \/ StopCheck(t) \/ StopTerminate(t) \/ StopWait(t) \/ StopKill(t) \/ StopDel(t)
  \/ DeleteCheck(t) \/ DeleteKill(t) \/ DeleteDel(t) \/ DeleteRm(t)
  \/ StatusRequest(t) \/ StatusCheck(t) \/ StatusPoll(t) \/ StatusDel(t)

Init == InitSupervisor /\ InitBroadcast /\ scan = NoScan

vars == <<storage, running_processes, procs, pc, loc, last,
          bpc, job, bi, inflight, sent, tally, history, bresp, scan>>

\* One request at a time: a sequential history of operations.
Next == Upload(1) \/ Control(1) \/ \E p \in Pids : ProcExit(p)
Spec == Init /\ [][Next]_vars

\* Control requests served concurrently by the worker threads, on the
\* deployment a previous run of the server left in the store.
InitConc ==
  /\ storage = [name \in Projects |-> IF name = "alpha" THEN ZipMain ELSE NoDir]
  /\ InitControl
  /\ InitBroadcast
  /\ scan = NoScan
NextConc == (\E t \in Threads : Control(t)) \/ \E p \in Pids : ProcExit(p)
SpecConc == InitConc /\ [][NextConc]_vars

\* One broadcast over a store of deployments.
InitStore ==
  /\ storage \in {st \in [Projects -> AlphaStores \cup BetaStores] :
                    st["alpha"] \in AlphaStores /\ st["beta"] \in BetaStores}
  /\ InitControl
  /\ InitBroadcast
  /\ scan = NoScan
NextBroadcast == BroadcastRequest \/ BatchIssue \/ BatchGather \/ BatchSleep \/ BroadcastSave
SpecBroadcast == InitStore /\ [][NextBroadcast]_vars

\* The event loop runs the handler's coroutine on: every request ends within
\* its timeout and the pause between batches ends.
SpecBroadcastFair == SpecBroadcast /\ WF_vars(NextBroadcast)

(***************************************************************************)
(* The entry-point resolver as a function of the deployment tree: one call *)
(* of find_bot_entry on a tree of three nested directories, with or        *)
(* without a __pycache__ directory that os.walk lists first.               *)
(***************************************************************************)
Script(base) == File(base, "py", NoToken, {})

ResolverFiles ==
  {Script(priority_files[i]) : i \in 1..Len(priority_files)}
    \cup {Script("helper"), File("README", "md", NoToken, {})}

\* The listings of one directory: up to MaxFiles different files, in any order.
FileLists ==
  UNION {{fs \in [1..n -> ResolverFiles] : \A i, j \in 1..n : i # j => fs[i] # fs[j]} :
           n \in 0..MaxFiles}

SubLists == {<<>>, <<Script("main")>>, <<Script("helper")>>, <<Script("app"), Script("bot")>>}
DeepLists == {<<>>, <<Script("main")>>}

ResolverTree(root, cached, sub, deep) ==
  <<Dir(<<>>, root)>>
    \o (IF cached THEN <<Dir(<<"__pycache__">>, <<Script("main")>>)>> ELSE <<>>)
    \o <<Dir(<<"sub">>, sub), Dir(<<"sub", "deep">>, deep)>>

ResolverTrees ==
  {ResolverTree(root, cached, sub, deep) :
     root \in FileLists, cached \in BOOLEAN, sub \in SubLists, deep \in DeepLists}

InitResolve ==
  /\ InitSupervisor
  /\ InitBroadcast
  /\ scan \in {[input |-> tree, output |-> <<>>, done |-> FALSE] : tree \in ResolverTrees}

\* action("start") resolves the entry point of the deployment's tree.
Resolve ==
  /\ ~scan.done
  /\ scan' = [scan EXCEPT !.output = find_bot_entry(scan.input), !.done = TRUE]
  /\ UNCHANGED <<storage, running_processes, procs, pc, loc, last, bvars>>

SpecResolve == InitResolve /\ [][Resolve]_vars

(***************************************************************************)
(* The token scan as a function of one file: its name and its text.  The   *)
(* texts are a run of digits, a colon and a run of letters, alone or       *)
(* between other characters.                                               *)
(***************************************************************************)
DigitRun(n) == [k \in 1..n |-> <<"1", "2", "3", "4", "5", "6", "7", "8", "9", "0">>[((k - 1) % 10) + 1]]
LetterRun(n) ==
  [k \in 1..n |-> <<"A", "B", "C", "D", "E", "F", "G", "H", "I", "J", "K", "L", "M">>[(((k - 1) \div 3) % 13) + 1]]

\* 123456789:AAABBBCCCDDDEEEFFFGGGHHHIIIJJJKKKLLL
TokenExample == DigitRun(9) \o <<":">> \o LetterRun(36)

TokenTexts ==
  {lead \o DigitRun(d) \o <<":">> \o LetterRun(n) \o trail :
     lead \in {<<>>, <<"T", "=">>, <<"7">>},
     d \in 7..MaxDigits,
     n \in 34..MaxLetters,
     trail \in {<<>>, <<" ">>}}

TokenFiles == {<<"config", "env">>, <<"main", "py">>, <<"notes", "txt">>}

InitToken ==
  /\ InitSupervisor
  /\ InitBroadcast
  /\ scan \in {[input |-> [base |-> f[1], ext |-> f[2], content |-> text],
                 output |-> <<>>, done |-> FALSE] : f \in TokenFiles, text \in TokenTexts}

\* extract_bot_token on a tree of one file: the first match in its text if the
\* scan reads the file, None if it does not.
ScanToken ==
  /\ ~scan.done
  /\ scan' = [scan EXCEPT
       !.output = IF TokenCandidate(File(scan.input.base, scan.input.ext, NoToken, {}))
                  THEN token_pattern_search(scan.input.content)
                  ELSE <<>>,
       !.done = TRUE]
  /\ UNCHANGED <<storage, running_processes, procs, pc, loc, last, bvars>>

SpecToken == InitToken /\ [][ScanToken]_vars

(***************************************************************************)
(* The recipient scan as a function of the lines of three files: users.txt *)
(* in the root, chats.txt and notes.txt in a directory below it.           *)
(***************************************************************************)
IdLines ==
  {<<"i", "d", "=", "9", "8", "7", "6", "5", "4", "3", "2", "1">>,
   <<"n", "o", "t", "e", " ", "4", "2">>,
   <<"-", "1", "0", "0", "1", "2", "3", "4", "5", "6", "7", "8", "9", "0">>,
   <<"1", "2", "3", "4", "5", "-", "6", "7", "8", "9", "0">>,
   <<"-", "-", "9", "8", "7", "6", "5", " ", "1", "2", "3", "4">>,
   <<"x", "1", "2", "3", "4", "5", "6", "y", " ", "0", "0", "1", "2", "3", "4", "5">>,
   <<"9", "8", "7", "6", "5", "4", "3", "2", "1", " ", "i", "d">>}

\* id=987654321 / note 42 / -1001234567890
IdExample ==
  <<<<"i", "d", "=", "9", "8", "7", "6", "5", "4", "3", "2", "1">>,
    <<"n", "o", "t", "e", " ", "4", "2">>,
    <<"-", "1", "0", "0", "1", "2", "3", "4", "5", "6", "7", "8", "9", "0">>>>

IdTexts == UNION {[1..n -> IdLines] : n \in 0..MaxLines}

IdTree(users, chats, notes) ==
  <<Dir(<<>>, <<File("users", "txt", NoToken, IdsOfLines(users))>>),
    Dir(<<"data">>, <<File("chats", "txt", NoToken, IdsOfLines(chats)),
                     File("notes", "txt", NoToken, IdsOfLines(notes))>>)>>

InitIds ==
  /\ InitSupervisor
  /\ InitBroadcast
  /\ scan \in {[input |-> [users |-> users, chats |-> chats, notes |-> notes],
                 output |-> <<>>, done |-> FALSE] :
                  users \in IdTexts \cup {IdExample},
                  chats \in {<<>>, <<<<"i", "d", "=", "9", "8", "7", "6", "5", "4", "3", "2", "1">>>>, <<<<"1", "2", "3", "4", "5", "-", "6", "7", "8", "9", "0">>, <<"9", "8", "7", "6", "5", "4", "3", "2", "1", " ", "i", "d">>>>},
                  notes \in {<<>>, <<<<"5", "5", "5", "5", "5">>>>}}

\* extract_user_ids on the tree of the three files.
ScanIds ==
  /\ ~scan.done
  /\ scan' = [scan EXCEPT
       !.output = extract_user_ids(IdTree(scan.input.users, scan.input.chats, scan.input.notes)),
       !.done = TRUE]
  /\ UNCHANGED <<storage, running_processes, procs, pc, loc, last, bvars>>

SpecIds == InitIds /\ [][ScanIds]_vars

(***************************************************************************)
(* Properties of the process supervisor.                                   *)
(***************************************************************************)
\* The response just sent answers an action on project last.req.key.
Answered(op) == last.result # "none" /\ last.req.op = op

\* C1: in a sequential history, status is not-running for a key before its
\* first start, running in the state that follows a successful start, and
\* not-running in the state that follows a successful stop or delete.
C1_StatusFollowsLifecycle ==
  /\ \A k \in Projects : k \notin started => ~is_running(k)
  /\ last.result = "Bot Started!" => is_running(last.req.key)
  /\ last.result \in {"Stopped", "Deleted"} => ~is_running(last.req.key)

\* A stop has just succeeded on a key that had been started and whose child
\* had to be killed.
C1_Witness ==
  /\ last.result = "Stopped"
  /\ last.req.key \in started
  /\ last.req.waited = "timeout"

\* C2: a start on a key whose registered child is alive answers
\* "Already Running", launches no child and leaves the registry as it was.
C2_StartOnLiveKey ==
  LET k == last.req.key
  IN (Answered("start") /\ k \in DOMAIN last.req.reg0 /\ procs[last.req.reg0[k]].state = "alive")
       => /\ last.result = "Already Running"
          /\ running_processes = last.req.reg0
          /\ Cardinality(Spawned) = last.req.spawned0

\* A start has just been answered on a key whose child is still alive.
C2_Witness ==
  /\ Answered("start")
  /\ last.req.key \in DOMAIN last.req.reg0
  /\ procs[last.req.reg0[last.req.key]].state = "alive"

\* C3: at most one live child per deployment key, under any interleaving.
C3_OneLiveChildPerKey ==
  \A k \in Projects : Cardinality({p \in Pids : procs[p].key = k /\ procs[p].state = "alive"}) <= 1

\* C4: when delete removes the tree, every child of that key has exited.
C4_DeleteAfterExit ==
  last.result = "Deleted" => last.req.left = {}

\* C5: stop answers "Stopped" only when the handle it found was of a live
\* process, and "Not running" otherwise.
C5_StopNeedsLiveHandle ==
  Answered("stop") /\ last.result \in {"Stopped", "Not running"}
    => (last.result = "Stopped" <=> last.req.probe = "live")

\* C6: a stop that finds a live handle sends SIGTERM, kills only after the
\* wait has timed out, answers "Stopped" and leaves the key out of the
\* registry and the child not running.
C6_StopRemovesHandle ==
  LET k == last.req.key
      p == last.req.reg0[k]
  IN /\ (Answered("stop") /\ last.result = "Stopped") => ~Registered(k)
     /\ (Answered("stop") /\ last.req.probe = "live")
       => /\ last.result = "Stopped"
          /\ ~Registered(k)
          /\ procs[p].state \in {"dead", "killed"}
          /\ last.req.waited = "timeout" => last.req.termTo = {p}
          /\ last.req.killTo # {} => last.req.killTo = {p} /\ last.req.waited = "timeout"
          /\ procs[p].state = "killed" => last.req.killTo = {p}

\* A stop has just ended by the forceful kill of a child that ignored SIGTERM.
C6_Witness ==
  /\ Answered("stop")
  /\ last.req.probe = "live"
  /\ last.req.killTo # {}

(***************************************************************************)
(* Properties of the broadcast engine.                                     *)
(***************************************************************************)
\* The deployments in scope of the broadcast, by their place in the listing.
InScope(i) == job.target_apps = {} \/ job.listing[i] \in job.target_apps
ScopePlaces == {i \in 1..Len(job.listing) : InScope(i)}
TokenPlaces == {i \in ScopePlaces : extract_bot_token(storage[job.listing[i]]) # NoToken}
ScopeRecipients == UNION {extract_user_ids(storage[job.listing[i]]) : i \in ScopePlaces}
SentTo == {sent[n].chat_id : n \in 1..Len(sent)}
Completed == bpc = "done" /\ bresp.status = "completed"

\* C7: n recipients go out in ceil(n/30) batches, all of 30 but the last,
\* one request per recipient (n requests that reach n recipients), and
\* success + failed = n.
C7_BatchesCoverRecipients ==
  Completed =>
    LET n == Cardinality(ScopeRecipients)
        b == tally.batches
    IN /\ n >= 1
       /\ Len(b) = (n + batch_size - 1) \div batch_size
       /\ \A k \in 1..Len(b) : b[k] = IF k < Len(b) THEN batch_size ELSE n - batch_size * (Len(b) - 1)
       /\ SentTo = ScopeRecipients /\ Len(sent) = n
       /\ bresp.total = n
       /\ bresp.success + bresp.failed = n

\* A broadcast to 65 recipients has completed in batches of 30, 30 and 5,
\* with successes and failures both.
C7_Witness ==
  /\ Completed
  /\ tally.batches = <<30, 30, 5>>
  /\ bresp.success > 0 /\ bresp.failed > 0

\* C8: without a token in scope the call fails for want of a token; with a
\* token and no recipient it fails for want of users; either way nothing is
\* sent and no history row is written.
C8_DiscoveryFailures ==
  (bpc # "idle" /\ job.text # "") =>
    /\ TokenPlaces = {} =>
         /\ bpc = "done" /\ bresp = ErrorResp("No bot token found")
         /\ sent = <<>> /\ history = <<>>
    /\ (TokenPlaces # {} /\ ScopeRecipients = {}) =>
         /\ bpc = "done" /\ bresp = ErrorResp("No users found")
         /\ sent = <<>> /\ history = <<>>

\* A broadcast has failed for want of recipients although a token was found.
C8_Witness ==
  /\ bpc = "done"
  /\ job.text # ""
  /\ TokenPlaces # {}
  /\ ScopeRecipients = {}

\* Once a request has gone out the call does not answer with an error; it
\* ends with a result whose failed count is the number of requests the API
\* did not answer 200, after a request to every recipient in scope.
C9_CountedNotRaised ==
  /\ sent # <<>> => bresp.status # "error"
  /\ (bpc = "done" /\ sent # <<>>) =>
       /\ bresp.status = "completed"
       /\ bresp.failed = tally.bad_outcomes
       /\ SentTo = ScopeRecipients
       /\ Len(history) = 1

C10_OneTokenForAll ==
  sent # <<>> =>
    /\ TokenPlaces # {}
    /\ {sent[n].token : n \in 1..Len(sent)}
         = {extract_bot_token(storage[job.listing[Min(TokenPlaces)]])}
    /\ SentTo \subseteq ScopeRecipients
    /\ Completed => SentTo = ScopeRecipients

\* Two deployments with different tokens are in scope; the second listed one
\* contributes recipients that the first does not, and the broadcast is done.
C10_Witness ==
  /\ Completed
  /\ Cardinality(TokenPlaces) = 2
  /\ extract_user_ids(storage[job.listing[2]]) \ extract_user_ids(storage[job.listing[1]]) # {}
  /\ extract_bot_token(storage[job.listing[1]]) # extract_bot_token(storage[job.listing[2]])

(***************************************************************************)
(* Properties of the entry-point resolver.                                 *)
(***************************************************************************)
\* The files of the directory of tree that has this path.
FilesAt(tree, path) ==
  LET at == {i \in 1..Len(tree) : tree[i].path = path}
  IN IF at = {} THEN <<>> ELSE tree[Min(at)].files

\* The scripts of a listing whose name is one of the six priority names.
NamedScripts(files) ==
  {files[j].base : j \in {i \in 1..Len(files) :
      files[i].ext = "py" /\ files[i].base \in {"main", "app", "bot", "index", "start", "run"}}}

\* The name of order that comes first among names.
FirstOf(order, names) == order[Min({i \in 1..Len(order) : order[i] \in names})]

\* The directories os.walk visits and the resolver does not pass over.
Walked(tree) == {i \in 1..Len(tree) : ~SkippedDir(tree[i])}

\* C11: when the deployment root directly holds a file with a priority name,
\* the resolver returns a file of the root with the root as working
\* directory, whatever files, of whatever name, are nested below it.
C11_RootBeforeNested ==
  (scan.done /\ NamedScripts(scan.input[1].files) # {})
    => /\ scan.output.dir = <<>>
       /\ scan.output.script \in NamedScripts(scan.input[1].files)

\* The root holds only bot.py, main.py lies two levels down, and the call
\* answered the root's bot.py.
C11_Witness ==
  /\ scan.done
  /\ scan.input[1].files = <<Script("bot")>>
  /\ "main" \in NamedScripts(FilesAt(scan.input, <<"sub", "deep">>))
  /\ scan.output = [script |-> "bot", dir |-> <<>>]

\* C15 (as amended): within the directory it answers from, the resolver
\* takes the first name present in the order main, bot, app, index, start,
\* run: a root holding both app.py and bot.py resolves to bot.py.
C15_OrderOfTheSource ==
  LET files == FilesAt(scan.input, scan.output.dir)
  IN (scan.done /\ scan.output # NoEntry /\ NamedScripts(files) # {})
       => scan.output.script =
            FirstOf(<<"main", "bot", "app", "index", "start", "run">>, NamedScripts(files))

\* C15 (as stated): the order is main, app, bot, index, start, run, so that
\* a root holding both app.py and bot.py resolves to app.py.
C15_OrderOfTheSpec ==
  LET files == FilesAt(scan.input, scan.output.dir)
  IN (scan.done /\ scan.output # NoEntry /\ NamedScripts(files) # {})
       => scan.output.script =
            FirstOf(<<"main", "app", "bot", "index", "start", "run">>, NamedScripts(files))

\* The root lists app.py and bot.py and the call answered bot.py.
C15_Witness ==
  /\ scan.done
  /\ scan.input[1].files = <<Script("app"), Script("bot")>>
  /\ scan.output = [script |-> "bot", dir |-> <<>>]

\* C16: the resolver falls back to a script without a priority name only
\* when no walked directory holds a priority-named script, and answers
\* "nothing found" only when no walked directory holds a script at all.
C16_FallbackAfterWholeWalk ==
  scan.done =>
    /\ (\E i \in Walked(scan.input) : NamedScripts(scan.input[i].files) # {})
         => scan.output.script \in {"main", "app", "bot", "index", "start", "run"}
    /\ (scan.output = NoEntry)
         <=> (\A i \in Walked(scan.input) : \A j \in 1..Len(scan.input[i].files) :
                scan.input[i].files[j].ext # "py")

(***************************************************************************)
(* Properties of the scanner.                                              *)
(***************************************************************************)
\* A text that is a token and nothing more: 8 to 10 digits, a colon and
\* exactly 35 token characters.
IsToken(text) ==
  \E d \in 8..10 :
    /\ Len(text) = d + 36
    /\ \A k \in 1..d : text[k] \in Digits
    /\ text[d + 1] = ":"
    /\ \A k \in (d + 2)..(d + 36) : text[k] \in TokenChars

Occurs(part, text) ==
  \E i \in 1..(Len(text) - Len(part) + 1) : SubSeq(text, i, i + Len(part) - 1) = part

ScannedName == <<scan.input.base, scan.input.ext>> \in {<<"config", "env">>, <<"main", "py">>}

\* C12 (as amended): what the token scan extracts from a scanned file is a
\* part of its text that is a token: 8 to 10 digits, a colon and exactly 35
\* token characters.  A text that is a token is extracted whole; of the
\* 46 characters 123456789:AAABBBCCCDDDEEEFFFGGGHHHIIIJJJKKKLLL, whose run
\* of letters is 36 long, the scan extracts the first 45.
C12_TokenOf35Characters ==
  (scan.done /\ ScannedName) =>
    /\ scan.output # <<>> => (IsToken(scan.output) /\ Occurs(scan.output, scan.input.content))
    /\ IsToken(scan.input.content) => scan.output = scan.input.content
    /\ scan.input.content = TokenExample => scan.output = SubSeq(TokenExample, 1, 45)

\* C12 (as stated): from a file that holds exactly
\* 123456789:AAABBBCCCDDDEEEFFFGGGHHHIIIJJJKKKLLL the scan extracts the whole
\* string, not a prefix or another part of it.
C12_WholeExample ==
  (scan.done /\ ScannedName /\ scan.input.content = TokenExample)
    => scan.output = TokenExample

\* The scan has read the 46-character example in config.env and answered
\* its first 45 characters.
C12_Witness ==
  /\ scan.done
  /\ <<scan.input.base, scan.input.ext>> = <<"config", "env">>
  /\ scan.input.content = TokenExample
  /\ Len(scan.output) = 45

\* The runs of digits of a line that no digit precedes or follows.
MaximalRuns(line) ==
  {r \in (1..Len(line)) \X (1..Len(line)) :
     /\ r[1] <= r[2]
     /\ \A k \in r[1]..r[2] : line[k] \in Digits
     /\ (r[1] = 1 \/ line[r[1] - 1] \notin Digits)
     /\ (r[2] = Len(line) \/ line[r[2] + 1] \notin Digits)}

\* A run with the minus sign before it, if there is one.
SignedRun(line, r) ==
  SubSeq(line, IF r[1] > 1 /\ line[r[1] - 1] = "-" THEN r[1] - 1 ELSE r[1], r[2])

LongRuns(lines) ==
  UNION {{SignedRun(lines[k], r) : r \in {q \in MaximalRuns(lines[k]) : q[2] - q[1] + 1 >= 5}} :
           k \in 1..Len(lines)}

\* C13: the recipient scan returns, once each, the maximal runs of at least
\* five digits, with the minus sign before them if there is one, of the lines
\* of the allow-listed files, and nothing else: the lines id=987654321,
\* note 42 and -1001234567890 yield exactly 987654321 and -1001234567890.
C13_IdsAreLongDigitRuns ==
  scan.done =>
    /\ scan.output = LongRuns(scan.input.users) \cup LongRuns(scan.input.chats)
    /\ (scan.input.users = IdExample /\ scan.input.chats = <<>>)
         => scan.output = {<<"9", "8", "7", "6", "5", "4", "3", "2", "1">>,
                           <<"-", "1", "0", "0", "1", "2", "3", "4", "5", "6", "7", "8", "9", "0">>}

\* The scan has read the three lines of the example in users.txt, the first
\* of them in chats.txt too, and five digits in notes.txt, and answered two
\* identifiers.
C13_Witness ==
  /\ scan.done
  /\ scan.input.users = IdExample
  /\ scan.input.chats = <<IdExample[1]>>
  /\ scan.input.notes # <<>>
  /\ Cardinality(scan.output) = 2

(***************************************************************************)
(* Properties of the broadcast dispatcher's batches.                       *)
(***************************************************************************)
\* The requests of the batch issued last.
LastBatch ==
  LET k == Len(tally.batches)
  IN {sent[n].chat_id : n \in (Len(sent) - tally.batches[k] + 1)..Len(sent)}

\* C14: batches are strictly sequential.  At most 30 requests are in flight,
\* and while requests are in flight they are those of the batch issued last:
\* every request of the batches before it has been answered and the pause
\* after each of those batches has elapsed.
C14_BatchesAreSequential ==
  /\ Cardinality(inflight) <= 30
  /\ inflight # {} =>
       /\ bpc = "gather"
       /\ inflight = LastBatch
       /\ tally.success_count + tally.fail_count = Len(sent) - Cardinality(LastBatch)
       /\ tally.pauses = Len(tally.batches) - 1

\* The third batch, of fewer than 30 requests, is in flight after two full
\* batches and two pauses.
C14_Witness ==
  /\ Len(tally.batches) = 3
  /\ tally.pauses = 2
  /\ inflight # {}
  /\ Cardinality(inflight) < 30
  /\ Len(sent) > 60

(***************************************************************************)
(* Properties of the status probe, of start and of the deployment's tree.  *)
(***************************************************************************)
\* The status request appends the row of the project it has just probed.
RowAdded ==
  /\ loc[1].op = "status"
  /\ loc'[1].op = "status"
  /\ Len(loc'[1].apps) = Len(loc[1].apps) + 1

\* C17: when the status probe adds a project's row, a handle whose process
\* has exited is reported not running and removed, a handle whose process
\* is live is reported running and kept, and no other entry of the registry
\* changes: after the probe, the registry holds no handle of an exited
\* process for the probed project.
C17_StatusEvictsOnlyTheDead ==
  [][RowAdded =>
       LET k == Head(loc[1].todo)
           row == loc'[1].apps[Len(loc'[1].apps)]
       IN /\ row.name = k
          /\ (k \in DOMAIN running_processes /\ procs[running_processes[k]].state = "dead")
               => (~row.running /\ k \notin DOMAIN running_processes')
          /\ (k \in DOMAIN running_processes /\ procs[running_processes[k]].state = "alive")
               => (row.running /\ running_processes' = running_processes)
          /\ k \notin DOMAIN running_processes => ~row.running
          /\ k \in DOMAIN running_processes' => procs'[running_processes'[k]].state # "dead"
          /\ \A j \in DOMAIN running_processes \ {k} :
               j \in DOMAIN running_processes' /\ running_processes'[j] = running_processes[j]
    ]_vars

\* A status request has reported a project as not running whose handle, of
\* an exited process, was in the registry when the request came in, and the
\* registry no longer holds it.
C17_Witness ==
  /\ loc[1].op = "status"
  /\ \E n \in 1..Len(loc[1].apps) :
       LET k == loc[1].apps[n].name
       IN /\ ~loc[1].apps[n].running
          /\ k \in DOMAIN loc[1].reg0
          /\ procs[loc[1].reg0[k]].state = "dead"
          /\ k \notin DOMAIN running_processes

\* C18: start stores a handle only when the spawn succeeded.  After "No
\* Python script found!" or "Start failed" no child was created, no child
\* of the key is alive and the registry is what it was when the request came
\* in.  After "Bot Started!" the key's handle is a new, live child, which
\* has replaced the handle of an exited process if the key had one.  A start
\* on a key whose previous process has exited is not answered "Already
\* Running".
C18_StartStoresOnSuccess ==
  (Answered("start") /\ last.req.probe # "none") =>
    LET k == last.req.key
        reg0 == last.req.reg0
    IN /\ last.result \in {"No Python script found!", "Start failed"} =>
            /\ running_processes = reg0
            /\ Cardinality(Spawned) = last.req.spawned0
            /\ \A p \in Spawned : procs[p].key = k => procs[p].state # "alive"
       /\ last.result = "Bot Started!" =>
            /\ k \in DOMAIN running_processes
            /\ procs[running_processes[k]].state = "alive"
            /\ procs[running_processes[k]].key = k
            /\ Cardinality(Spawned) = last.req.spawned0 + 1
            /\ k \in DOMAIN reg0 =>
                 (running_processes[k] # reg0[k] /\ procs[reg0[k]].state = "dead")
            /\ \A j \in DOMAIN reg0 \ {k} :
                 j \in DOMAIN running_processes /\ running_processes[j] = reg0[j]
       /\ last.req.probe = "exited" =>
            last.result \in {"Bot Started!", "No Python script found!", "Start failed"}
       /\ last.result = "Already Running" => running_processes = reg0

\* A start found the handle of an exited process, the spawn failed, and the
\* registry still holds that handle.
C18_Witness ==
  /\ Answered("start")
  /\ last.result = "Start failed"
  /\ last.req.probe = "exited"
  /\ last.req.key \in DOMAIN running_processes
  /\ procs[running_processes[last.req.key]].state = "dead"

\* C19: whenever the registry holds the handle of a live child, the
\* directory the child runs in exists in the stored tree of its deployment:
\* no upload or delete has removed it underneath the child.
C19_LiveChildHasItsDirectory ==
  \A k \in DOMAIN running_processes :
    LET child == procs[running_processes[k]]
    IN child.state = "alive" =>
         /\ storage[k] # NoDir
         /\ child.cwd # Deleted
         /\ \E i \in 1..Len(storage[k]) : storage[k][i].path = child.cwd

(***************************************************************************)
(* Properties of concurrent control requests.                              *)
(***************************************************************************)
\* C20: whatever the interleaving of concurrent stop, delete and status
\* requests, each of them is answered with one of its own outcomes, none
\* with the server's answer to an unhandled error, raised when another
\* request removed the registry entry between the membership test and its
\* use; and a child is reported "Stopped" at most once: each "Stopped"
\* takes a handle out of the registry and no handle is stored twice.
C20_DefinedOutcomes ==
  /\ []((last.result # "none" /\ last.req.op \in {"stop", "delete", "status"})
          => last.result # "Internal Server Error")
  /\ [][/\ (last'.result = "Stopped" /\ last'.req.op = "stop")
             => (last'.req.key \in DOMAIN running_processes
                   /\ last'.req.key \notin DOMAIN running_processes')
         /\ \A k \in DOMAIN running_processes' :
              (k \notin DOMAIN running_processes \/ running_processes'[k] # running_processes[k])
                => procs[running_processes'[k]].state = "unborn"
       ]_vars
====
